---- MODULE Spec2Model ----
(***************************************************************************)
(* Booking validity, pricing and review uniqueness of the listings app:     *)
(* listings/models.py, listings/serializers.py, listings/admin.py and the   *)
(* seed command.  Dates are day numbers, money is counted in cents, a       *)
(* booking's primary key is its position in the table.                      *)
(***************************************************************************)
EXTENDS Integers, Sequences, FiniteSets

\* ------------------------------------------------------------------ bounds
MaxDay == 3
MaxBookings == 2
MaxUpdates == 1

\* ------------------------------------------------------------- data types
\* An absent optional value: None for integers and dates, NoStatus for a
\* status string.
None == 0 - 1
NoStatus == "None"

Days == 1..MaxDay

\* Listing rows that exist; primary keys are handed out from 1.
Listings == {1, 2}

\* listing_id values a request may carry: IntegerField accepts any integer,
\* 0 is the falsy one, 3 is a key no listing has.
RequestListingIds == {0, 1, 2, 3}

STATUS_CHOICES == {"pending", "confirmed", "cancelled", "completed"}

\* Listing.price_per_night, in cents (DecimalField, 2 places, >= 1.00).
price_per_night(l) == IF l = 1 THEN 10000 ELSE 4550

\* A client may send total_price; the field is read-only in the serializer.
SuppliedPrices == {None, 1}

\* Concurrent web requests, and the users they authenticate as.
Clients == {1, 2}
Users == {1, 2}

\* A client with no request between is_valid() and save().
Idle == [idle |-> TRUE]

VARIABLES
    is_available,     \* Listing.is_available, per listing
    bookings,         \* the Booking table: pk |-> row
    inflight,         \* per client: a booking request between is_valid() and save()
    reviews,          \* the Review table: pk |-> row
    review_inflight,  \* per client: a review request between is_valid() and save()
    seeder,           \* the seed command inside _create_reviews
    n_updates         \* update requests handled so far

vars == <<is_available, bookings, inflight, reviews, review_inflight,
          seeder, n_updates>>

booking_vars == <<is_available, bookings, inflight, n_updates>>
review_vars == <<reviews, review_inflight, seeder>>

\* ------------------------------------------------------------ models.py
\* Listing.total_price_for_nights: price_per_night * Decimal(nights).
total_price_for_nights(l, nights) == price_per_night(l) * nights

\* Booking.nights_booked / the day difference used by create.
nights_between(check_in, check_out) == check_out - check_in

\* Booking.status default.
DefaultStatus == "pending"

\* ---------------------------------------------------------- serializers.py
\* Python truthiness of an optional integer: None and 0 are falsy.
IntTruthy(v) == v # None /\ v # 0

\* Python truthiness of an optional date: only None is falsy.
DateTruthy(v) == v # None

BlockingStatuses_OnlyConfirmed == {"confirmed"}

BlockingStatuses_WithCancelled == {"confirmed", "pending", "cancelled"}

\* status__in=['confirmed', 'pending']
BlockingStatuses == {"confirmed", "pending"}

DatesOverlap_Closed(b, check_in, check_out) ==
    /\ b.check_in_date <= check_out
    /\ b.check_out_date >= check_in

\* check_in_date__lt=check_out_date, check_out_date__gt=check_in_date
DatesOverlap(b, check_in, check_out) ==
    /\ b.check_in_date < check_out
    /\ b.check_out_date > check_in

\* Booking.objects.filter(...).exclude(pk=instance pk or None)
overlapping_bookings(bks, listing_id, check_in, check_out, instance_pk) ==
    { pk \in DOMAIN bks :
        /\ bks[pk].listing_id = listing_id
        /\ bks[pk].status \in BlockingStatuses
        /\ DatesOverlap(bks[pk], check_in, check_out)
        /\ pk # instance_pk }

\* Listing.objects.filter(id=listing_id, is_available=True).first()
available_listing(avail, listing_id) ==
    listing_id \in Listings /\ avail[listing_id]

\* Whether validate looks at the store at all.
validate_checks(data) ==
    /\ IntTruthy(data.listing_id)
    /\ DateTruthy(data.check_in_date)
    /\ DateTruthy(data.check_out_date)

\* BookingSerializer.validate: "ok" or the ValidationError raised.
validate(data, instance_pk, bks, avail) ==
    IF validate_checks(data)
    THEN IF overlapping_bookings(bks, data.listing_id, data.check_in_date,
                                 data.check_out_date, instance_pk) # {}
         THEN "not_available_for_dates"
         ELSE IF ~available_listing(avail, data.listing_id)
              THEN "not_available"
              ELSE "ok"
    ELSE "ok"

created_total_price_supplied(data, supplied_price) ==
    IF supplied_price # None
    THEN supplied_price
    ELSE total_price_for_nights(data.listing_id,
            nights_between(data.check_in_date, data.check_out_date))

\* The row BookingSerializer.create inserts: total_price computed from the
\* listing, status from the request or the model default; the supplied
\* total_price never reaches validated_data.
created_total_price(data, supplied_price) ==
    total_price_for_nights(data.listing_id,
        nights_between(data.check_in_date, data.check_out_date))

created_status(data) ==
    IF data.status = NoStatus THEN DefaultStatus ELSE data.status

new_booking(data, supplied_price) ==
    [ listing_id     |-> data.listing_id,
      check_in_date  |-> data.check_in_date,
      check_out_date |-> data.check_out_date,
      total_price    |-> created_total_price(data, supplied_price),
      status         |-> created_status(data) ]

create_rechecking(data, supplied_price, bks) ==
    IF data.listing_id \notin Listings
    THEN [result |-> "DoesNotExist", bookings |-> bks]
    ELSE IF overlapping_bookings(bks, data.listing_id, data.check_in_date,
                                 data.check_out_date, None) # {}
         THEN [result |-> "IntegrityError", bookings |-> bks]
         ELSE [result |-> "created",
               bookings |-> Append(bks, new_booking(data, supplied_price))]

\* BookingSerializer.create: Listing.objects.get raises DoesNotExist for a
\* key no listing has, otherwise the row is inserted.
create(data, supplied_price, bks) ==
    IF data.listing_id \in Listings
    THEN [result |-> "created", bookings |-> Append(bks, new_booking(data, supplied_price))]
    ELSE [result |-> "DoesNotExist", bookings |-> bks]

\* One creation request handled start to finish: is_valid(), then save().
handle_create(data, supplied_price, bks, avail) ==
    LET v == validate(data, None, bks, avail)
    IN  IF v = "ok"
        THEN create(data, supplied_price, bks)
        ELSE [result |-> "ValidationError", bookings |-> bks]

\* The status values creation requests are sent with: left out, or one of
\* the choices (completed, which like cancelled is no blocking status, is
\* only sent by update requests here).
CreateStatuses == {NoStatus, "pending", "confirmed", "cancelled"}

\* Creation requests: listing_id and both dates are required fields, status
\* is optional.
CreateRequests ==
    [ listing_id     : RequestListingIds,
      check_in_date  : Days,
      check_out_date : Days,
      status         : CreateStatuses ]

\* Update requests: with partial=True any field may be left out.
UpdateRequests ==
    [ listing_id     : RequestListingIds \cup {None},
      check_in_date  : Days \cup {None},
      check_out_date : Days \cup {None},
      status         : STATUS_CHOICES \cup {NoStatus} ]

\* ModelSerializer.update, which BookingSerializer inherits: every field of
\* validated_data is set on the instance and the row is saved; total_price
\* is read-only and stays.  A listing_id no listing has breaks the foreign
\* key and the save fails.
update(instance_pk, data, bks) ==
    LET old == bks[instance_pk]
        row == [ listing_id     |-> IF data.listing_id = None
                                    THEN old.listing_id ELSE data.listing_id,
                 check_in_date  |-> IF data.check_in_date = None
                                    THEN old.check_in_date ELSE data.check_in_date,
                 check_out_date |-> IF data.check_out_date = None
                                    THEN old.check_out_date ELSE data.check_out_date,
                 total_price    |-> old.total_price,
                 status         |-> IF data.status = NoStatus
                                    THEN old.status ELSE data.status ]
    IN  IF row.listing_id \in Listings
        THEN [result |-> "updated", bookings |-> [bks EXCEPT ![instance_pk] = row]]
        ELSE [result |-> "IntegrityError", bookings |-> bks]

\* One update request handled start to finish.
handle_update(instance_pk, data, bks, avail) ==
    IF validate(data, instance_pk, bks, avail) = "ok"
    THEN update(instance_pk, data, bks)
    ELSE [result |-> "ValidationError", bookings |-> bks]

\* ---------------------------------------------------------------- reviews
\* Requests a review client may send; the user comes from the session.
ReviewRequests == [ listing_id : RequestListingIds, user : Users ]

review_exists(rvs, listing_id, user) ==
    \E pk \in DOMAIN rvs : rvs[pk].listing_id = listing_id /\ rvs[pk].user = user

\* ReviewSerializer.validate
validate_review(data, rvs) ==
    IF IntTruthy(data.listing_id) /\ review_exists(rvs, data.listing_id, data.user)
    THEN "already_reviewed"
    ELSE "ok"

insert_review_unconstrained(rvs, row) ==
    IF row.listing_id \notin Listings
    THEN [result |-> "IntegrityError", reviews |-> rvs]
    ELSE [result |-> "created", reviews |-> Append(rvs, row)]

\* The INSERT into the Review table: the foreign key to Listing and
\* unique_together = ['listing', 'user'] are enforced by the database.
insert_review(rvs, row) ==
    IF row.listing_id \notin Listings \/ review_exists(rvs, row.listing_id, row.user)
    THEN [result |-> "IntegrityError", reviews |-> rvs]
    ELSE [result |-> "created", reviews |-> Append(rvs, row)]

\* ReviewSerializer.create
create_review(data, rvs) ==
    insert_review(rvs, [listing_id |-> data.listing_id, user |-> data.user])

\* Number of iterations of the seeder's review loop (--reviews).
MaxSeedReviews == 2

\* ------------------------------------------------------------------ actions
Init ==
    /\ is_available \in [Listings -> BOOLEAN]
    /\ bookings = <<>>
    /\ inflight = [c \in Clients |-> Idle]
    /\ reviews = <<>>
    /\ review_inflight = [c \in Clients |-> Idle]
    /\ seeder = [pc |-> "loop", i |-> 0, listing_id |-> 0, user |-> 0]
    /\ n_updates = 0

\* A booking creation request processed on its own.
CreateBooking ==
    /\ Len(bookings) < MaxBookings
    /\ \E data \in CreateRequests, supplied_price \in SuppliedPrices :
          bookings' = handle_create(data, supplied_price, bookings, is_available).bookings
    /\ UNCHANGED <<is_available, inflight, n_updates>>
    /\ UNCHANGED review_vars

\* An update request (PUT or PATCH) for a stored booking processed on its own.
UpdateBooking ==
    /\ n_updates < MaxUpdates
    /\ n_updates' = n_updates + 1
    /\ \E pk \in DOMAIN bookings, data \in UpdateRequests :
          bookings' = handle_update(pk, data, bookings, is_available).bookings
    /\ UNCHANGED <<is_available, inflight>>
    /\ UNCHANGED review_vars

\* Concurrent creation requests carry no status here: each stores a
\* pending booking.
RaceRequests == { d \in CreateRequests : d.status = NoStatus }

InFlight == { c \in Clients : inflight[c] # Idle }

\* Client c's request runs is_valid(): validate reads the store as it is now.
ValidateBooking(c) ==
    /\ inflight[c] = Idle
    /\ Len(bookings) + Cardinality(InFlight) < MaxBookings
    /\ \E data \in RaceRequests :
          inflight' = [inflight EXCEPT ![c] =
                          IF validate(data, None, bookings, is_available) = "ok"
                          THEN data ELSE Idle]
    /\ UNCHANGED <<is_available, bookings, n_updates>>
    /\ UNCHANGED review_vars

\* Client c's request runs save(): create inserts without looking again.
SaveBooking(c) ==
    /\ inflight[c] # Idle
    /\ bookings' = create(inflight[c], None, bookings).bookings
    /\ inflight' = [inflight EXCEPT ![c] = Idle]
    /\ UNCHANGED <<is_available, n_updates>>
    /\ UNCHANGED review_vars

\* Client c's review request runs is_valid().
ValidateReview(c) ==
    /\ review_inflight[c] = Idle
    /\ \E data \in ReviewRequests :
          review_inflight' = [review_inflight EXCEPT ![c] =
                                IF validate_review(data, reviews) = "ok"
                                THEN data ELSE Idle]
    /\ UNCHANGED <<reviews, seeder>>
    /\ UNCHANGED booking_vars

\* Client c's review request runs save().
SaveReview(c) ==
    /\ review_inflight[c] # Idle
    /\ reviews' = create_review(review_inflight[c], reviews).reviews
    /\ review_inflight' = [review_inflight EXCEPT ![c] = Idle]
    /\ UNCHANGED seeder
    /\ UNCHANGED booking_vars

\* Command._create_reviews, one loop iteration up to the existence check:
\* a random listing and user; the pair is skipped when already reviewed.
SeedPick ==
    /\ seeder.pc = "loop"
    /\ seeder.i < MaxSeedReviews
    /\ \E l \in Listings, u \in Users :
          seeder' = IF review_exists(reviews, l, u)
                    THEN [seeder EXCEPT !.i = @ + 1]
                    ELSE [pc |-> "create", i |-> seeder.i, listing_id |-> l, user |-> u]
    /\ UNCHANGED <<reviews, review_inflight>>
    /\ UNCHANGED booking_vars

\* Command._create_reviews, Review.objects.create of the iteration: an
\* IntegrityError is not caught and ends the command.
SeedCreate ==
    /\ seeder.pc = "create"
    /\ LET r == insert_review(reviews, [listing_id |-> seeder.listing_id,
                                        user |-> seeder.user])
       IN  /\ reviews' = r.reviews
           /\ seeder' = IF r.result = "created"
                        THEN [pc |-> "loop", i |-> seeder.i + 1,
                              listing_id |-> 0, user |-> 0]
                        ELSE [seeder EXCEPT !.pc = "crashed"]
    /\ UNCHANGED review_inflight
    /\ UNCHANGED booking_vars

\* Creation requests handled one at a time.
Next == CreateBooking

Spec == Init /\ [][Next]_vars

\* Creation and update requests handled one at a time.
NextUpdate == CreateBooking \/ UpdateBooking

SpecUpdate == Init /\ [][NextUpdate]_vars

\* Creation requests of several clients, interleaved between is_valid() and
\* save().
NextConcurrent == \E c \in Clients : ValidateBooking(c) \/ SaveBooking(c)

SpecConcurrent == Init /\ [][NextConcurrent]_vars

\* Review requests of several clients and the seeder, interleaved.
NextReview ==
    \/ \E c \in Clients : ValidateReview(c) \/ SaveReview(c)
    \/ SeedPick
    \/ SeedCreate

SpecReview == Init /\ [][NextReview]_vars

\* ------------------------------------------------------------------- claims
ActivePair(i, j) ==
    /\ i # j
    /\ bookings[i].listing_id = bookings[j].listing_id
    /\ bookings[i].status \in {"pending", "confirmed"}
    /\ bookings[j].status \in {"pending", "confirmed"}

ProperRange(b) == b.check_in_date < b.check_out_date

\* No two distinct pending/confirmed rows of one listing in table bks overlap.
ActiveOverlapFree(bks) ==
    \A i, j \in DOMAIN bks :
        ( /\ i # j
          /\ bks[i].listing_id = bks[j].listing_id
          /\ bks[i].status \in {"pending", "confirmed"}
          /\ bks[j].status \in {"pending", "confirmed"} )
        => ~( /\ bks[i].check_in_date < bks[j].check_out_date
              /\ bks[i].check_out_date > bks[j].check_in_date )

\* C1: after any sequence of creation requests handled one at a time, no two
\* distinct pending/confirmed bookings of one listing have b1.check_in <
\* b2.check_out and b1.check_out > b2.check_in.
C1_NoActiveOverlap == ActiveOverlapFree(bookings)

\* Two pending/confirmed bookings of one listing, each of at least a night.
C1_Witness ==
    \E i, j \in DOMAIN bookings :
        /\ ActivePair(i, j)
        /\ ProperRange(bookings[i])
        /\ ProperRange(bookings[j])

\* The creation request for listing l and the days [ci, co) sent with status st.
CreateRequest(l, ci, co, st) ==
    [listing_id |-> l, check_in_date |-> ci, check_out_date |-> co, status |-> st]

C9_HalfOpenOverlap ==
    Len(bookings) < MaxBookings =>
    \A l \in Listings : is_available[l] =>
    \A ci \in Days, co \in Days, st \in CreateStatuses :
        handle_create(CreateRequest(l, ci, co, st), None,
                      bookings, is_available).result = "ValidationError"
        <=> \E pk \in DOMAIN bookings :
               /\ bookings[pk].listing_id = l
               /\ bookings[pk].status \in {"pending", "confirmed"}
               /\ bookings[pk].check_in_date < co
               /\ bookings[pk].check_out_date > ci

\* Two active bookings of one listing, the later one checking in on the day
\* the earlier one checks out.
C9_Witness ==
    \E i, j \in DOMAIN bookings :
        /\ i < j
        /\ ActivePair(i, j)
        /\ bookings[i].check_in_date < bookings[i].check_out_date
        /\ bookings[j].check_in_date < bookings[j].check_out_date
        /\ bookings[i].check_out_date = bookings[j].check_in_date

\* C5: every booking stored by create has total_price = the listing's
\* price_per_night times the nights between its dates, whatever total_price
\* the request carried; 100.00 a night for 3 nights is 300.00.
C5_TotalPriceComputed ==
    /\ \A pk \in DOMAIN bookings :
          bookings[pk].total_price =
              price_per_night(bookings[pk].listing_id)
                * (bookings[pk].check_out_date - bookings[pk].check_in_date)
    /\ \A supplied_price \in SuppliedPrices :
          new_booking([listing_id |-> 1, check_in_date |-> 1, check_out_date |-> 4,
                       status |-> NoStatus], supplied_price).total_price = 30000

\* A stored 2-night booking of the 100.00 listing priced 200.00.
C5_Witness ==
    \E pk \in DOMAIN bookings :
        /\ bookings[pk].listing_id = 1
        /\ bookings[pk].check_out_date - bookings[pk].check_in_date = 2
        /\ bookings[pk].total_price = 20000

\* C3: a creation request naming a listing that is unavailable or does not
\* exist never gets past validate: every request waiting between is_valid()
\* and save() names an existing, available listing.
C3_UnavailableRejectedByValidate ==
    \A c \in Clients :
        inflight[c] # Idle =>
            /\ inflight[c].listing_id \in Listings
            /\ is_available[inflight[c].listing_id]

\* C6: no stored booking has check_out_date <= check_in_date, a night count
\* below one or a total price that is not positive.
C6_CheckOutAfterCheckIn ==
    \A pk \in DOMAIN bookings :
        /\ bookings[pk].check_out_date > bookings[pk].check_in_date
        /\ bookings[pk].total_price > 0

\* C7: every booking stored by the create path has status pending.
C7_CreatedPending ==
    \A pk \in DOMAIN bookings : bookings[pk].status = "pending"

C10_UpdateKeepsNoOverlap ==
    [][ ( /\ ActiveOverlapFree(bookings)
          /\ \A pk \in DOMAIN bookings : ProperRange(bookings[pk]) )
        => ActiveOverlapFree(bookings') ]_vars

\* C2: at most one review is stored per (listing, user) pair, under every
\* interleaving of review requests and the seeder.
C2_OneReviewPerPair ==
    \A i, j \in DOMAIN reviews :
        i # j => ~( /\ reviews[i].listing_id = reviews[j].listing_id
                    /\ reviews[i].user = reviews[j].user )

\* A request that passed the existence check is still waiting to insert
\* while a review of its (listing, user) pair has been stored meanwhile.
C2_Witness ==
    \E c \in Clients :
        /\ review_inflight[c] # Idle
        /\ \E pk \in DOMAIN reviews :
              /\ reviews[pk].listing_id = review_inflight[c].listing_id
              /\ reviews[pk].user = review_inflight[c].user

====
